---- MODULE Spec2Model ----
(***************************************************************************)
(* Model of src/main.py: the Video Screenshot API.                         *)
(*                                                                         *)
(* Strings are sequences of one-character strings, so that lower(),        *)
(* endswith(), os.path.join, os.path.basename and the format strings are   *)
(* computed the way the code computes them.  A path on disk is the         *)
(* sequence of its components after the kernel resolved "." and "..",      *)
(* relative to the working directory of the service.                       *)
(*                                                                         *)
(* Both handlers are "async def" without any await, so the event loop runs *)
(* one handler to its end before the next one starts; the steps of         *)
(* create_screenshots are separate actions of one request at a time.  The  *)
(* server shuts down between handlers and may be started again: the disk   *)
(* stays as the last run left it.                                          *)
(*                                                                         *)
(* The quality parameter is copied verbatim into the ffmpeg command line   *)
(* (line 69) and reaches no state of the program; it is left out.          *)
(***************************************************************************)
EXTENDS Integers, Sequences, FiniteSets, TLC

\* ---------------------------------------------------------------- bounds

\* Upload requests that reach uuid4 (line 97) in one behaviour.
MaxJobs == 2

\* Largest num_screenshots a request asks for.
MaxCount == 2

\* Largest duration ffprobe prints, in ticks of 1/TicksPerSecond second.
MaxTicks == 5

\* Durations are multiples of 1/TicksPerSecond second.  On the durations and
\* counts within these bounds the float arithmetic of lines 57 and 60
\* truncates to the same whole second as the exact quotient.
TicksPerSecond == 2

\* ---------------------------------------------------------------- strings

Digit(n) == <<"0", "1", "2", "3", "4", "5", "6", "7", "8", "9">>[n + 1]

RECURSIVE Decimal(_)
\* str(n) for an integer n
Decimal(n) ==
    IF n < 0 THEN <<"-">> \o Decimal(-n)
    ELSE IF n < 10 THEN <<Digit(n)>>
    ELSE Decimal(n \div 10) \o <<Digit(n % 10)>>

RECURSIVE ZeroPad(_, _)
\* format(n, "0<w>d") for n >= 0: at least w digits
ZeroPad(s, w) == IF Len(s) >= w THEN s ELSE ZeroPad(<<"0">> \o s, w)

\* str.lower() on the letters the inputs use
LowerChar(c) ==
    CASE c = "M" -> "m"
      [] c = "P" -> "p"
      [] c = "O" -> "o"
      [] c = "V" -> "v"
      [] c = "C" -> "c"
      [] c = "L" -> "l"
      [] c = "I" -> "i"
      [] OTHER -> c

Lower(s) == [k \in 1..Len(s) |-> LowerChar(s[k])]

\* str.endswith(suffix)
EndsWith(s, suffix) ==
    /\ Len(s) >= Len(suffix)
    /\ SubSeq(s, Len(s) - Len(suffix) + 1, Len(s)) = suffix

\* str.endswith(tuple of suffixes)
EndsWithAny(s, suffixes) == \E x \in suffixes : EndsWith(s, x)

RECURSIVE SplitAcc(_, _, _, _)
SplitAcc(s, sep, cur, acc) ==
    IF s = <<>> THEN Append(acc, cur)
    ELSE IF Head(s) = sep THEN SplitAcc(Tail(s), sep, <<>>, Append(acc, cur))
    ELSE SplitAcc(Tail(s), sep, Append(cur, Head(s)), acc)

\* s.split(sep)
SplitOn(s, sep) == SplitAcc(s, sep, <<>>, <<>>)

\* The components of a path string.
Split(s) == SplitOn(s, "/")

\* posixpath.join(a, b)
PathJoin(a, b) ==
    IF b # <<>> /\ Head(b) = "/" THEN b
    ELSE IF a = <<>> \/ a[Len(a)] = "/" THEN a \o b
    ELSE a \o <<"/">> \o b

\* posixpath.basename(p)
Basename(p) == LET parts == Split(p) IN parts[Len(parts)]

\* ---------------------------------------------------------------- the disk

Cwd == <<>>

DotDot == <<".", ".">>

Dot == <<".">>

RECURSIVE WalkFrom(_, _, _)
\* The kernel's walk over the components `parts` from directory `at`: the
\* resolved component sequence, or <<"ENOENT">> when a directory on the way is
\* missing.  Every component but the last has to be an existing directory.
WalkFrom(parts, at, ds) ==
    IF parts = <<>> THEN at
    ELSE IF at \notin ds THEN << <<"ENOENT">> >>
    ELSE LET c == Head(parts) IN
         IF c = <<>> \/ c = Dot THEN WalkFrom(Tail(parts), at, ds)
         ELSE IF c = DotDot
              THEN WalkFrom(Tail(parts),
                            IF at = Cwd THEN at ELSE SubSeq(at, 1, Len(at) - 1), ds)
         ELSE WalkFrom(Tail(parts), Append(at, c), ds)

NoEntry == << <<"ENOENT">> >>

\* Resolution of the relative path string p against the directories ds.
Resolve(p, ds) == WalkFrom(Split(p), Cwd, ds)

IsPrefix(a, b) == Len(a) <= Len(b) /\ SubSeq(b, 1, Len(a)) = a

\* Path x lies strictly below directory d.
Inside(x, d) == Len(x) > Len(d) /\ IsPrefix(d, x)


\* ---------------------------------------------------------------- inputs

\* TEMP_DIR = "temp"
TEMP_DIR == <<"t", "e", "m", "p">>

\* The suffixes of line 93.
VideoExtensions ==
    { <<".", "m", "p", "4">>, <<".", "a", "v", "i">>,
      <<".", "m", "o", "v">>, <<".", "m", "k", "v">> }

\* str(uuid.uuid4()) of the n-th call: a value no earlier call returned.
uuid4(n) == <<"j">> \o Decimal(n)

ClipMp4 == <<"c", "l", "i", "p", ".", "m", "p", "4">>

\* Filenames a client sends in the multipart header (not sanitised on the way
\* to video.filename).
Filenames ==
    { <<"C", "L", "I", "P", ".", "M", "O", "V">>,
      <<"c", "l", "i", "p", ".", "t", "x", "t">>,
      <<"c", "l", "i", "p", "m", "p", "4">>,
      <<".", ".", "/">> \o ClipMp4,
      <<".", ".", "/">> \o uuid4(1) \o <<"/", "a", ".", "a", "v", "i">> }

\* num_screenshots of a request: -1 makes line 57 divide by zero, -2 and 0
\* make range() empty.
Counts == (0 - 2)..MaxCount

\* Durations ffprobe prints, in ticks; corrupt input can give zero or less.
Ticks == (0 - 3)..MaxTicks

\* What ffprobe does: exit non-zero, print something float() rejects, or
\* print a duration.
ProbeOutcomes ==
    { [kind |-> k, ticks |-> 0] : k \in {"exit", "text"} }
    \cup { [kind |-> "number", ticks |-> t] : t \in Ticks }

\* What the ffmpeg call does: write the image and exit 0, exit non-zero
\* without an image, or fail to start (subprocess.run raises OSError).
ExtractOutcomes == {"ok", "nonzero", "oserror"}

\* What writing the upload does once the file is open.
CopyOutcomes == {"ok", "ioerror"}

\* Path parameters of DELETE /screenshots/{job_id}: any text without "/".
CleanupIds == { uuid4(n) : n \in 1..MaxJobs } \cup { Dot, ClipMp4 }

\* ---------------------------------------------------------------- state

VARIABLES
    up,      \* the service process is running (module body executed)
    dirs,    \* directories on disk, as resolved component sequences
    files,   \* regular files on disk: [path, by], by = the job that wrote it
    njobs,   \* number of uuid4() calls so far
    req,     \* the upload request being handled, and its locals
    calls,   \* external tool invocations of that request, in order
    resp     \* the last response sent (or the start of the service)

vars == <<up, dirs, files, njobs, req, calls, resp>>

NoReq ==
    [ pc |-> "idle", filename |-> <<>>, num_screenshots |-> 0, job |-> 0,
      job_id |-> <<>>, job_dir |-> <<>>, video_path |-> <<>>,
      duration |-> 0, interval |-> [num |-> 0, den |-> 1], i |-> 0,
      screenshot_paths |-> <<>>, stage |-> "none" ]

NoResp ==
    [ kind |-> "none", status |-> 0, job_id |-> <<>>, screenshot_dir |-> <<>>,
      screenshots |-> <<>>, detail |-> "" ]

FilePaths == { f.path : f \in files }

Exists(p) == p \in dirs \/ p \in FilePaths

\* open(path, "wb"): the file at p is created or truncated by job j.
WriteFile(fs, p, j) == { f \in fs : f.path # p } \cup { [path |-> p, by |-> j] }

\* shutil.rmtree(d): d and everything below it.
RmtreeDirs(ds, d) == { x \in ds : ~IsPrefix(d, x) }

RmtreeFiles(fs, d) == { f \in fs : ~Inside(f.path, d) }

\* os.makedirs(p): p and its missing parents.
Makedirs(ds, p) == ds \cup { SubSeq(p, 1, k) : k \in 1..Len(p) }

Init ==
    /\ up = FALSE
    /\ dirs = {Cwd}
    /\ files = {}
    /\ njobs = 0
    /\ req = NoReq
    /\ calls = <<>>
    /\ resp = NoResp

\* ---------------------------------------------------------------- start, stop

Idle == up /\ req.pc \in {"idle", "done"}

\* Module body, lines 30-34: os.makedirs(TEMP_DIR, exist_ok=True).
Startup ==
    /\ ~up
    /\ up' = TRUE
    /\ dirs' = Makedirs(dirs, Resolve(TEMP_DIR, dirs))
    /\ req' = NoReq
    /\ calls' = <<>>
    /\ resp' = [NoResp EXCEPT !.kind = "startup"]
    /\ UNCHANGED <<files, njobs>>

\* uvicorn.run returns (shutdown between two handlers); the disk is left as
\* it is.
Stop ==
    /\ Idle
    /\ up' = FALSE
    /\ req' = NoReq
    /\ calls' = <<>>
    /\ resp' = NoResp
    /\ UNCHANGED <<dirs, files, njobs>>

\* ---------------------------------------------------------------- arithmetic

\* int(x) of the quotient a / b, b > 0: truncation toward zero.
Trunc(a, b) == IF a >= 0 THEN a \div b ELSE 0 - ((0 - a) \div b)

\* duration / (num_screenshots + 1), line 57, kept as a fraction of seconds
\* with a positive denominator; the duration comes in ticks.
Interval(duration, num_screenshots) ==
    LET n == num_screenshots + 1 IN
    IF n > 0 THEN [num |-> duration, den |-> n * TicksPerSecond]
    ELSE [num |-> 0 - duration, den |-> (0 - n) * TicksPerSecond]

\* The loop variable used one too far: interval * (i + 2).
TimePointOffByOne(interval, i) == Trunc(interval.num * (i + 2), interval.den)

\* int(time_point) with time_point = interval * (i + 1), lines 60-61; i is
\* the loop variable of range(num_screenshots), counted from 0.
TimePoint(interval, i) == Trunc(interval.num * (i + 1), interval.den)

\* str(timedelta(seconds=s)): "H:MM:SS", with "D day(s), " in front when the
\* normalised day count is not zero.
TimedeltaStr(s) ==
    LET days == s \div 86400
        rest == s % 86400
        hh   == rest \div 3600
        mm   == (rest % 3600) \div 60
        ss   == rest % 60
        absd == IF days < 0 THEN 0 - days ELSE days
        dpart == IF days = 0 THEN <<>>
                 ELSE Decimal(days) \o <<" ", "d", "a", "y">>
                      \o (IF absd # 1 THEN <<"s">> ELSE <<>>) \o <<",", " ">>
    IN dpart \o Decimal(hh) \o <<":">> \o ZeroPad(Decimal(mm), 2)
             \o <<":">> \o ZeroPad(Decimal(ss), 2)

\* f'screenshot_{i+1:03d}.jpg', line 62
ScreenshotName(i) ==
    <<"s", "c", "r", "e", "e", "n", "s", "h", "o", "t", "_">>
    \o ZeroPad(Decimal(i + 1), 3) \o <<".", "j", "p", "g">>

\* ---------------------------------------------------------------- POST /screenshots/

\* The test without the dot of the suffixes.
SupportedNoDot(filename) ==
    EndsWithAny(Lower(filename), { SubSeq(x, 2, Len(x)) : x \in VideoExtensions })

\* Line 93: the extension test.
Supported(filename) == EndsWithAny(Lower(filename), VideoExtensions)

\* Lines 93-99: the extension test, then the job directory.
CreateScreenshots(filename, num_screenshots) ==
    /\ Idle
    /\ up' = up
    /\ calls' = <<>>
    /\ IF ~Supported(filename)
       THEN /\ req' = [NoReq EXCEPT !.pc = "done", !.filename = filename,
                                    !.num_screenshots = num_screenshots]
            /\ resp' = [NoResp EXCEPT !.kind = "upload", !.status = 400,
                                      !.detail = "Unsupported file format"]
            /\ UNCHANGED <<dirs, files, njobs>>
       ELSE /\ njobs < MaxJobs
            /\ njobs' = njobs + 1
            /\ files' = files
            /\ LET job_id  == uuid4(njobs + 1)
                   job_dir == PathJoin(TEMP_DIR, job_id)
                   d       == Resolve(job_dir, dirs)
               IN IF Exists(d)
                  THEN \* os.makedirs raises FileExistsError outside the try
                       /\ dirs' = dirs
                       /\ req' = [NoReq EXCEPT !.pc = "done", !.filename = filename,
                                               !.num_screenshots = num_screenshots]
                       /\ resp' = [NoResp EXCEPT !.kind = "upload", !.status = 500,
                                                 !.detail = "FileExistsError"]
                  ELSE /\ dirs' = Makedirs(dirs, d)
                       /\ req' = [NoReq EXCEPT !.pc = "save", !.filename = filename,
                                               !.num_screenshots = num_screenshots,
                                               !.job = njobs + 1, !.job_id = job_id,
                                               !.job_dir = job_dir]
                       /\ resp' = NoResp

\* Lines 103-105: the upload is written to join(job_dir, video.filename).
SaveUpload(outcome) ==
    /\ up /\ req.pc = "save"
    /\ LET video_path == PathJoin(req.job_dir, req.filename)
           p          == Resolve(video_path, dirs)
       IN IF p = NoEntry \/ p \in dirs
          THEN \* open() raises: a directory on the way is missing, or the
               \* target is a directory
               /\ outcome = "ok"
               /\ files' = files
               /\ req' = [req EXCEPT !.pc = "except", !.video_path = video_path,
                                     !.stage = "save"]
          ELSE /\ files' = WriteFile(files, p, req.job)
               /\ req' = [req EXCEPT !.pc = IF outcome = "ok" THEN "probe" ELSE "except",
                                     !.video_path = video_path,
                                     !.stage = IF outcome = "ok" THEN "none" ELSE "save"]
    /\ UNCHANGED <<up, dirs, njobs, calls, resp>>

\* Lines 56 and 36-45: ffprobe is run on the upload; check_output raises on a
\* non-zero exit and float() on text that is no number.
GetVideoDuration(outcome) ==
    /\ up /\ req.pc = "probe"
    /\ calls' = Append(calls, [tool |-> "ffprobe", input |-> req.video_path, i |-> 0,
                               seconds |-> 0, ss |-> <<>>, output |-> <<>>,
                               result |-> outcome.kind])
    /\ req' = IF outcome.kind = "number"
              THEN [req EXCEPT !.pc = "interval", !.duration = outcome.ticks]
              ELSE [req EXCEPT !.pc = "except", !.stage = "probe"]
    /\ UNCHANGED <<up, dirs, files, njobs, resp>>

\* Line 57: interval = duration / (num_screenshots + 1).
ComputeInterval ==
    /\ up /\ req.pc = "interval"
    /\ req' = IF req.num_screenshots + 1 = 0
              THEN \* ZeroDivisionError
                   [req EXCEPT !.pc = "except", !.stage = "plan"]
              ELSE [req EXCEPT !.pc = "loop", !.i = 0,
                               !.interval = Interval(req.duration, req.num_screenshots)]
    /\ UNCHANGED <<up, dirs, files, njobs, calls, resp>>

\* Lines 59-75: one pass of the loop over range(num_screenshots).
\* subprocess.run has no check=True: the exit status of ffmpeg is not read.
ExtractFrame(outcome) ==
    /\ up /\ req.pc = "loop"
    /\ req.i < req.num_screenshots
    /\ LET seconds     == TimePoint(req.interval, req.i)
           timestamp   == TimedeltaStr(seconds)
           output_file == PathJoin(req.job_dir, ScreenshotName(req.i))
       IN /\ calls' = Append(calls, [tool |-> "ffmpeg", input |-> req.video_path,
                                     i |-> req.i + 1, seconds |-> seconds,
                                     ss |-> timestamp, output |-> output_file,
                                     result |-> outcome])
          /\ files' = IF outcome = "ok"
                      THEN WriteFile(files, Resolve(output_file, dirs), req.job)
                      ELSE files
          /\ req' = IF outcome = "oserror"
                    THEN [req EXCEPT !.pc = "except", !.stage = "extract"]
                    ELSE [req EXCEPT !.i = req.i + 1,
                                     !.screenshot_paths = Append(@, output_file)]
    /\ UNCHANGED <<up, dirs, njobs, resp>>

\* "/temp/{job_id}"
BaseUrl(job_id) == <<"/">> \o TEMP_DIR \o <<"/">> \o job_id

\* Lines 113-122: the list of the response.
Screenshots(job_id, screenshot_paths) ==
    [ k \in 1..Len(screenshot_paths) |->
        [ id |-> k,
          filename |-> Basename(screenshot_paths[k]),
          url |-> BaseUrl(job_id) \o <<"/">> \o Basename(screenshot_paths[k]) ] ]

\* Lines 77 and 111-128: the loop is over; the upload is removed and the
\* response is built.
ReturnScreenshots ==
    /\ up /\ req.pc = "loop"
    /\ ~(req.i < req.num_screenshots)
    /\ LET p == Resolve(req.video_path, dirs) IN
       IF p \notin FilePaths
       THEN \* os.remove raises
            /\ files' = files
            /\ req' = [req EXCEPT !.pc = "except", !.stage = "remove"]
            /\ resp' = resp
       ELSE /\ files' = { f \in files : f.path # p }
            /\ req' = [req EXCEPT !.pc = "done"]
            /\ resp' = [NoResp EXCEPT !.kind = "upload", !.status = 200,
                                      !.job_id = req.job_id,
                                      !.screenshot_dir = BaseUrl(req.job_id),
                                      !.screenshots =
                                          Screenshots(req.job_id, req.screenshot_paths)]
    /\ UNCHANGED <<up, dirs, njobs, calls>>

\* The handler without its rmtree.
HandleErrorNoRmtree ==
    /\ up /\ req.pc = "except"
    /\ req' = [req EXCEPT !.pc = "done"]
    /\ resp' = [NoResp EXCEPT !.kind = "upload", !.status = 500,
                              !.detail = "Error processing video"]
    /\ UNCHANGED <<up, dirs, files, njobs, calls>>

\* Lines 130-133: shutil.rmtree(job_dir, ignore_errors=True), then the 500.
HandleError ==
    /\ up /\ req.pc = "except"
    /\ LET d == Resolve(req.job_dir, dirs) IN
       /\ dirs' = RmtreeDirs(dirs, d)
       /\ files' = RmtreeFiles(files, d)
    /\ req' = [req EXCEPT !.pc = "done"]
    /\ resp' = [NoResp EXCEPT !.kind = "upload", !.status = 500,
                              !.detail = "Error processing video"]
    /\ UNCHANGED <<up, njobs, calls>>

\* ---------------------------------------------------------------- DELETE /screenshots/{job_id}

\* Lines 137-143.  shutil.rmtree raises NotADirectoryError on a regular file;
\* on a path whose last component is "." it empties the directory and then
\* fails in rmdir.  Whatever is raised is answered with a 500.
CleanupScreenshots(job_id) ==
    /\ Idle
    /\ LET job_dir == PathJoin(TEMP_DIR, job_id)
           d       == Resolve(job_dir, dirs)
       IN IF ~Exists(d)
          THEN /\ resp' = [NoResp EXCEPT !.kind = "cleanup", !.status = 404,
                                         !.job_id = job_id, !.detail = "Job not found"]
               /\ UNCHANGED <<dirs, files>>
          ELSE IF d \in FilePaths
          THEN /\ resp' = [NoResp EXCEPT !.kind = "cleanup", !.status = 500,
                                         !.job_id = job_id, !.detail = "NotADirectoryError"]
               /\ UNCHANGED <<dirs, files>>
          ELSE IF Basename(job_dir) = Dot
          THEN /\ dirs' = { x \in dirs : ~Inside(x, d) }
               /\ files' = RmtreeFiles(files, d)
               /\ resp' = [NoResp EXCEPT !.kind = "cleanup", !.status = 500,
                                         !.job_id = job_id, !.detail = "OSError"]
          ELSE /\ dirs' = RmtreeDirs(dirs, d)
               /\ files' = RmtreeFiles(files, d)
               /\ resp' = [NoResp EXCEPT !.kind = "cleanup", !.status = 200,
                                         !.job_id = job_id, !.detail = "Cleaned up job"]
    /\ req' = NoReq
    /\ calls' = <<>>
    /\ UNCHANGED <<up, njobs>>

\* ---------------------------------------------------------------- specification

Next ==
    \/ Startup
    \/ Stop
    \/ \E f \in Filenames, n \in Counts : CreateScreenshots(f, n)
    \/ \E o \in CopyOutcomes : SaveUpload(o)
    \/ \E o \in ProbeOutcomes : GetVideoDuration(o)
    \/ ComputeInterval
    \/ \E o \in ExtractOutcomes : ExtractFrame(o)
    \/ ReturnScreenshots
    \/ HandleError
    \/ \E j \in CleanupIds : CleanupScreenshots(j)

Spec == Init /\ [][Next]_vars

\* ---------------------------------------------------------------- reading the state

\* The ffmpeg invocations of the request, in the order they were made.
FfmpegCalls == SelectSeq(calls, LAMBDA c : c.tool = "ffmpeg")

FfprobeCalls == SelectSeq(calls, LAMBDA c : c.tool = "ffprobe")

DigitVal(c) == CHOOSE n \in 0..9 : Digit(n) = c

RECURSIVE ParseInt(_)
ParseInt(s) == IF s = <<>> THEN 0 ELSE 10 * ParseInt(SubSeq(s, 1, Len(s) - 1)) + DigitVal(s[Len(s)])

\* The whole seconds an "H:MM:SS" argument of -ss stands for.
SecondsOf(ss) ==
    LET p == SplitOn(ss, ":") IN ParseInt(p[1]) * 3600 + ParseInt(p[2]) * 60 + ParseInt(p[3])

\* The upload request has been answered with the list of screenshots.
Succeeded == req.pc = "done" /\ resp.kind = "upload" /\ resp.status = 200

\* The job directory of the request, resolved.
JobDir(n) == << TEMP_DIR, uuid4(n) >>

JobDirs == { d \in dirs : Len(d) = 2 /\ d[1] = TEMP_DIR }

\* ---------------------------------------------------------------- C1

\* The request ran its loop to the end for a positive count and duration.
C1_Case == Succeeded /\ req.num_screenshots > 0 /\ req.duration > 0

\* C1, as stated: for count > 0 and duration > 0 the timestamps handed to the
\* frame extractor are exactly count in number, strictly increasing, and each
\* lies strictly between 0 and the duration.
C1_AsStated ==
    C1_Case =>
        /\ Len(FfmpegCalls) = req.num_screenshots
        /\ \A k \in 1..Len(FfmpegCalls) :
              /\ 0 < SecondsOf(FfmpegCalls[k].ss)
              /\ SecondsOf(FfmpegCalls[k].ss) * TicksPerSecond < req.duration
        /\ \A k \in 1..(Len(FfmpegCalls) - 1) :
              SecondsOf(FfmpegCalls[k].ss) < SecondsOf(FfmpegCalls[k + 1].ss)

\* C1, amended: for count > 0 and duration > 0 the timestamps handed to the
\* frame extractor are exactly count in number, non-decreasing (equal ones
\* occur), and each satisfies 0 <= t < duration.
C1_Timestamps ==
    C1_Case =>
        /\ Len(FfmpegCalls) = req.num_screenshots
        /\ \A k \in 1..Len(FfmpegCalls) :
              /\ 0 <= SecondsOf(FfmpegCalls[k].ss)
              /\ SecondsOf(FfmpegCalls[k].ss) * TicksPerSecond < req.duration
        /\ \A k \in 1..(Len(FfmpegCalls) - 1) :
              SecondsOf(FfmpegCalls[k].ss) <= SecondsOf(FfmpegCalls[k + 1].ss)

\* A finished job of two screenshots on a clip of one second: both calls were
\* handed the timestamp 0.
C1_Witness ==
    /\ C1_Case
    /\ req.num_screenshots = 2
    /\ req.duration = TicksPerSecond
    /\ FfmpegCalls[1].ss = <<"0", ":", "0", "0", ":", "0", "0">>
    /\ FfmpegCalls[2].ss = FfmpegCalls[1].ss

\* ---------------------------------------------------------------- C2

\* C2: once an extraction call exits non-zero no further extraction is made,
\* the request ends in an error that lists no screenshots, and the job
\* directory is gone.
C2_ExtractionFailureAborts ==
    \A k \in 1..Len(calls) :
        (calls[k].tool = "ffmpeg" /\ calls[k].result = "nonzero") =>
            /\ k = Len(calls)
            /\ req.pc = "done" =>
                  /\ resp.status >= 400
                  /\ resp.screenshots = <<>>
                  /\ JobDir(req.job) \notin dirs

\* ---------------------------------------------------------------- C3

\* C3: a request with num_screenshots <= 0 is rejected with a 4xx error before
\* the prober or the extractor is invoked, and never answered with success.
C3_NonPositiveCountRejected ==
    (req.pc # "idle" /\ req.num_screenshots <= 0) =>
        /\ calls = <<>>
        /\ req.pc = "done" => resp.status \in 400..499

\* ---------------------------------------------------------------- C4

\* The prober printed a duration and it is zero or less.
C4_Case == Len(calls) >= 1 /\ calls[1].result = "number" /\ req.duration <= 0

\* C4: when the prober returns a duration <= 0 no frame extraction is
\* invoked, the job ends in an error without an artifact list, and its
\* working directory is removed.
C4_NonPositiveDurationRejected ==
    C4_Case =>
        /\ FfmpegCalls = <<>>
        /\ req.pc = "done" =>
              /\ resp.status >= 400
              /\ resp.screenshots = <<>>
              /\ JobDir(req.job) \notin dirs

\* ---------------------------------------------------------------- C5

\* The filenames among the inputs whose extension is none of the four.
UnsupportedNames ==
    { <<"c", "l", "i", "p", ".", "t", "x", "t">>,
      <<"c", "l", "i", "p", "m", "p", "4">> }

\* A step that takes up an upload whose filename is not a video's.
C5_Step == Idle /\ req'.pc # "idle" /\ req'.filename \in UnsupportedNames

\* C5: an upload whose filename extension is not .mp4/.avi/.mov/.mkv is
\* answered 400 at once: no job identifier is drawn, no directory is made, no
\* tool is invoked, and the disk is as it was before the request.
C5_UnsupportedRejectedFirst ==
    [][ C5_Step =>
          /\ req'.pc = "done"
          /\ resp'.kind = "upload" /\ resp'.status = 400
          /\ calls' = <<>>
          /\ req'.job = 0
          /\ njobs' = njobs
          /\ dirs' = dirs
          /\ files' = files ]_vars

\* clip.txt has been rejected while an earlier job's directory is on disk.
C5_Witness ==
    /\ req.pc = "done"
    /\ req.filename = <<"c", "l", "i", "p", ".", "t", "x", "t">>
    /\ resp.status = 400
    /\ JobDir(1) \in dirs

\* ---------------------------------------------------------------- C6

\* C6: the working directories of any two jobs differ, and every file a job
\* wrote (the upload, the screenshots) lies inside that job's own directory,
\* so no job directory holds a file of another job.
C6_JobIsolation ==
    /\ \A a, b \in 1..njobs : a # b => JobDir(a) # JobDir(b)
    /\ \A f \in files : Inside(f.path, JobDir(f.by))

\* ---------------------------------------------------------------- C7

\* The identifier names a job whose directory is on disk.
ExistingJob(id) == (\E n \in 1..njobs : id = uuid4(n)) /\ << TEMP_DIR, id >> \in dirs

\* C7: cleanup of an existing job deletes exactly that job's directory and
\* reports success; cleanup of any other identifier answers 404 and leaves
\* the disk as it is.
C7_Cleanup ==
    [][ (Idle /\ resp'.kind = "cleanup") =>
          LET id == resp'.job_id
              d  == << TEMP_DIR, id >>
          IN IF ExistingJob(id)
             THEN /\ resp'.status = 200
                  /\ dirs' = dirs \ {d}
                  /\ files' = { f \in files : ~Inside(f.path, d) }
             ELSE /\ resp'.status = 404
                  /\ dirs' = dirs
                  /\ files' = files ]_vars

\* ---------------------------------------------------------------- C8

\* The request failed while saving the upload, probing, or computing the
\* interval.
C8_Case == req.pc \in {"except", "done"} /\ req.stage \in {"save", "probe", "plan"}

\* C8: after the job directory exists, a failure while persisting the upload,
\* probing or planning ends the job: nothing is retried, no extraction is
\* invoked, the caller gets an error without an artifact list, and the job
\* directory is deleted.  A prober that exits non-zero or prints no number is
\* such a failure, and so is the division by zero of num_screenshots = -1.
C8_EarlyFailureCleansUp ==
    /\ C8_Case =>
          /\ FfmpegCalls = <<>>
          /\ Len(FfprobeCalls) <= 1
          /\ req.stage = "save" => calls = <<>>
          /\ req.pc = "done" =>
                /\ resp.kind = "upload" /\ resp.status = 500
                /\ resp.screenshots = <<>>
                /\ JobDir(req.job) \notin dirs
                /\ \A f \in files : ~Inside(f.path, JobDir(req.job))
    /\ (Len(calls) >= 1 /\ calls[1].result \in {"exit", "text"}) =>
          /\ Len(calls) = 1
          /\ C8_Case /\ req.stage = "probe"
    /\ (Len(calls) >= 1 /\ calls[1].result = "number" /\ req.num_screenshots = 0 - 1) =>
          /\ Len(calls) = 1
          /\ req.pc \in {"interval", "except", "done"}
          /\ req.pc # "interval" => req.stage = "plan"

\* The prober failed on a saved upload and the request has been answered.
C8_Witness ==
    /\ req.pc = "done" /\ req.stage = "probe"
    /\ calls[1].result = "text"
    /\ resp.status = 500
    /\ JobDir(1) \in dirs /\ req.job = 2

\* ---------------------------------------------------------------- C9

\* C9: right after the service started the root exists and holds no job
\* directory of an earlier run, so cleanup knows none of the earlier
\* identifiers.
C9_StartupWipesRoot ==
    resp.kind = "startup" =>
        /\ << TEMP_DIR >> \in dirs
        /\ JobDirs = {}

\* ---------------------------------------------------------------- C10

\* "screenshot_00k.jpg" for k < 10
ShotName(k) ==
    <<"s", "c", "r", "e", "e", "n", "s", "h", "o", "t", "_", "0", "0">>
    \o <<Digit(k)>> \o <<".", "j", "p", "g">>

\* C10: a successful job with count > 0 made exactly count extractor calls,
\* in index order 1..count with non-decreasing timestamps, the k-th writing
\* screenshot_00k.jpg in the job directory; the response lists count
\* artifacts with ids 1..count in that order; the upload is gone from the
\* disk while the directory and the screenshots are still there.
C10_SuccessfulJob ==
    (Succeeded /\ req.num_screenshots > 0) =>
        LET n == req.num_screenshots IN
        /\ Len(FfmpegCalls) = n
        /\ Len(FfprobeCalls) = 1 /\ calls[1].tool = "ffprobe"
        /\ \A k \in 1..n :
              /\ FfmpegCalls[k].i = k
              /\ Resolve(FfmpegCalls[k].output, dirs) = Append(JobDir(req.job), ShotName(k))
              /\ Append(JobDir(req.job), ShotName(k)) \in FilePaths
        /\ \A k \in 1..(n - 1) : FfmpegCalls[k].seconds <= FfmpegCalls[k + 1].seconds
        /\ Len(resp.screenshots) = n
        /\ \A k \in 1..n :
              /\ resp.screenshots[k].id = k
              /\ resp.screenshots[k].filename = ShotName(k)
        /\ Resolve(req.video_path, dirs) \notin FilePaths
        /\ JobDir(req.job) \in dirs

====
